---- MODULE Spec2Model ----
(***************************************************************************)
(* Two subsystems of the interactive-connectivity stack.                   *)
(*                                                                         *)
(*  - The ICE connectivity-check selector of                               *)
(*    crates/ice/src/agent/agent_selector.rs (controlling and controlled   *)
(*    role), checked under SelectorSpec (one agent, any inbound message),  *)
(*    NominationSpec (the controlled role with the history of its deferred *)
(*    nominations) and HappyPathSpec (a controlling and a controlled agent *)
(*    on a reliable network, with fair scheduling).                        *)
(*  - The TURN Allocation of crates/turn/src/allocation/mod.rs, checked    *)
(*    under AllocationSpec (concurrent callers of an open allocation),     *)
(*    CloseSpec (one caller, close, start and stop), LifetimeSpec (the     *)
(*    lifetime task with start, stop, refresh and close), PermissionSpec   *)
(*    (the permissions with the expiry tasks of replaced entries) and      *)
(*    ReturnSpec (all operations and tasks together, with fair             *)
(*    scheduling).                                                         *)
(*                                                                         *)
(* The selector runs on the agent's own task (every handler takes          *)
(* &mut self), so each handler is one atomic action.  The Allocation's     *)
(* &self methods may be polled concurrently; they are split where they     *)
(* take a lock.  A start().await, which touches only the caller's own      *)
(* Permission or ChannelBind, is one step with the insert that follows.    *)
(***************************************************************************)
EXTENDS Integers, FiniteSets, Sequences, TLC

(***************************************************************************)
(* Bounds of the model.                                                    *)
(***************************************************************************)
MaxTime == 3
MaxPending == 1
MaxLifetime == 2
NumCallers == 2
MaxLifetimeTasks == 2

None == "None"

(* Option::None of a pair and of a transaction.                            *)
NoPair == <<None, None>>
NoTx == <<None, FALSE>>

Min(a, b) == IF a < b THEN a ELSE b
Max(a, b) == IF a > b THEN a ELSE b

(***************************************************************************)
(*                         I C E   S E L E C T O R                         *)
(***************************************************************************)

(* Candidates known to the agent: one local, three remote.                 *)
Locals == {"L1"}
Remotes == {"R1", "R2", "R3"}

(* Candidate::candidate_type()                                             *)
candidate_type(c) ==
    CASE c = "L1" -> "Host"
      [] c = "R1" -> "Host"
      [] c = "R2" -> "ServerReflexive"
      [] c = "R3" -> "Unspecified"

(* Candidate::priority()                                                   *)
priority(c) ==
    CASE c = "L1" -> 4
      [] c = "R1" -> 2
      [] c = "R2" -> 3
      [] c = "R3" -> 1

(* Candidate::addr(): the transport address of a remote candidate.         *)
addr(c) ==
    CASE c = "R1" -> "a1"
      [] c = "R2" -> "a2"
      [] c = "R3" -> "a3"

(* PendingRequest.destination: a remote candidate's address.               *)
Destinations == {addr(c) : c \in Remotes}

(* Source addresses a response can be observed from: the candidates'       *)
(* addresses and one more (the mapping a symmetric NAT would create).      *)
Addrs == Destinations \cup {"nat"}

PairIds == Locals \X Remotes

VARIABLES
    is_controlling,   \* AgentInternal.is_controlling
    lite,             \* AgentInternal.lite
    start_time,       \* AgentInternal.start_time
    now,              \* Instant::now()
    pairs,            \* the candidate-pair registry: pair -> state ("None": not in it)
    nominated,        \* CandidatePair.nominated, the set of pairs whose flag is set
    nominated_pair,   \* AgentInternal.nominated_pair
    selected_pair,    \* agent_conn's selected pair
    pending,          \* pending binding requests: <<destination, is_use_candidate>> -> count
    out,              \* messages emitted by the last selector operation
    binding_success,  \* send_binding_success calls of the last selector operation
    ev                \* the last selector operation and its inputs

ice_vars == <<is_controlling, lite, start_time, now, pairs, nominated,
              nominated_pair, selected_pair, pending, out, binding_success,
              ev>>

VARIABLES
    permissions,       \* Allocation.permissions: ip fingerprint -> entry
    channel_bindings,  \* Allocation.channel_bindings: number -> entry
    closed,            \* Allocation.closed
    reset_tx,          \* Allocation.reset_tx: 0 (None) or the lifetime task it feeds
    timer_expired,     \* Allocation.timer_expired
    registered,        \* the manager's map holds the five-tuple's fingerprint
    lifetime_tasks,    \* the tasks spawned by Allocation::start
    calls,             \* per caller: the &self call in progress and its position
    cb_lock,           \* holder of the channel_bindings mutex across awaits
    close_pc,          \* position of the close() in progress
    ret,               \* the last step of the allocation: operation, result
    orphans            \* per ip fingerprint: the expiry tasks of Permissions replaced in the map

turn_vars == <<permissions, channel_bindings, closed, reset_tx,
               timer_expired, registered, lifetime_tasks, calls, cb_lock,
               close_pc, ret, orphans>>

(* History of the allocation's lifetime: the time that the last lifetime   *)
(* accepted from refresh still has to run.                                 *)
VARIABLES
    promised

(* History of the controlled selector's nominations, per pair: "pending"   *)
(* once a USE-CANDIDATE request for the pair arrived while it was not      *)
(* Succeeded and triggered a ping, "ready" once an accepted response to a  *)
(* ping has since made the pair Succeeded, "none" again after the next     *)
(* inbound request for the pair.                                           *)
VARIABLES
    nomination

history_vars == <<promised, nomination>>

(* A second agent, in the controlled role, and the network between the two *)
(* agents.                                                                 *)
VARIABLES
    peer,   \* the controlled agent: its registry, selected pair and pending requests
    net     \* the messages in flight to each agent

peer_vars == <<peer, net>>

(* What the allocation's steps leave alone.                                *)
selector_vars == <<ice_vars, nomination, peer_vars>>

vars == <<ice_vars, turn_vars, history_vars, peer_vars>>

PairStates == {"Waiting", "InProgress", "Succeeded", "Failed"}

(* min_wait(type): the per-type acceptance grace period, in clock units.   *)
acceptance_min_wait(t) ==
    CASE t = "Host" -> 0
      [] t = "ServerReflexive" -> 1
      [] t = "PeerReflexive" -> 1
      [] t = "Relay" -> 2

(* A mutant of is_nominatable: >= in place of >.                           *)
is_nominatable_ge(c) ==
    IF candidate_type(c) = "Unspecified"
    THEN FALSE
    ELSE now - start_time >= acceptance_min_wait(candidate_type(c))

(* AgentInternal::is_nominatable                                           *)
is_nominatable(c) ==
    IF candidate_type(c) = "Unspecified"
    THEN FALSE
    ELSE now - start_time > acceptance_min_wait(candidate_type(c))

(* The ICE pair priority: min(G,D)*2^32 + max(G,D)*2 + (G>D ? 1 : 0), G    *)
(* the controlling agent's candidate priority and D the controlled one's.  *)
(* Candidate priorities are u32, so the low part max(G,D)*2 + (G>D) is     *)
(* below 2^33 and the 64-bit value is kept as its two parts <<high, low>>, *)
(* high = min(G,D) and low as above (the model's priorities are below 2^31 *)
(* and never carry into the high part).                                    *)
pair_priority(p) ==
    LET g == IF is_controlling THEN priority(p[1]) ELSE priority(p[2])
        d == IF is_controlling THEN priority(p[2]) ELSE priority(p[1])
    IN  <<Min(g, d), Max(g, d) * 2 + (IF g > d THEN 1 ELSE 0)>>

(* a <= b on the two-part priorities.                                      *)
priority_le(a, b) == a[1] < b[1] \/ (a[1] = b[1] /\ a[2] <= b[2])

(* The highest-priority pair of a set (NoPair when it is empty);           *)
(* priorities of distinct pairs of the model differ.                       *)
BestOf(S) ==
    IF S = {} THEN NoPair
    ELSE CHOOSE p \in S :
            \A q \in S : priority_le(pair_priority(q), pair_priority(p))

(* agent_conn.get_best_valid_candidate_pair(): best among Succeeded.       *)
get_best_valid_candidate_pair ==
    BestOf({p \in PairIds : pairs[p] = "Succeeded"})

(* agent_conn.get_best_available_candidate_pair(): best among not Failed.  *)
get_best_available_candidate_pair ==
    BestOf({p \in PairIds : pairs[p] \notin {None, "Failed"}})

(* find_pair(local, remote)                                                *)
find_pair(local, remote) ==
    IF pairs[<<local, remote>>] = None THEN NoPair ELSE <<local, remote>>

(* add_pair(local, remote): a new pair starts Waiting.                     *)
add_pair(ps, local, remote) ==
    [ps EXCEPT ![<<local, remote>>] = "Waiting"]

(* Messages the selector emits.                                            *)
Request(p, use) == [kind |-> "request", pair |-> p, use |-> use]
Success(p) == [kind |-> "success", pair |-> p, use |-> FALSE]
Keepalive(p) == [kind |-> "keepalive", pair |-> p, use |-> FALSE]

(* send_binding_request registers one transaction per request in the      *)
(* table; the table keeps at most MaxPending transactions per key (the     *)
(* older ones have reached their RTO).                                     *)
register(pend, reqs) ==
    [k \in DOMAIN pend |->
        Min(MaxPending,
            pend[k] + Cardinality({r \in reqs :
                                     <<addr(r.pair[2]), r.use>> = k}))]

(* handle_inbound_binding_success(id): removes and returns the request.    *)
consume(pend, k) == [pend EXCEPT ![k] = pend[k] - 1]

(* What the last operation was called with: the operation, the pair its   *)
(* (local, remote) arguments name, the USE-CANDIDATE flag (of the request, *)
(* or of the pending request a response answers), and for a response       *)
(* whether its transaction id is pending (known) and whether its source    *)
(* address equals the pending request's destination (same_addr).           *)
Event(op, pair, use, known, same_addr) ==
    [op |-> op, pair |-> pair, use |-> use, known |-> known,
     same_addr |-> same_addr]

NoEvent == Event("none", NoPair, FALSE, FALSE, FALSE)

(* The controlled agent after construction, with registry ps.              *)
PeerAgent(ps) ==
    [pairs |-> ps, selected_pair |-> NoPair,
     pending |-> [k \in Destinations \X BOOLEAN |-> 0]]

NoMessages == [to_agent |-> {}, to_peer |-> {}]

SelectorInit ==
    /\ is_controlling \in BOOLEAN
    /\ lite \in BOOLEAN
    /\ (is_controlling => ~lite)
    /\ start_time = 0
    /\ now = 0
    /\ pairs = [p \in PairIds |-> None]
    /\ nominated = {}
    /\ nominated_pair = NoPair
    /\ selected_pair = NoPair
    /\ pending = [k \in Destinations \X BOOLEAN |-> 0]
    /\ out = {}
    /\ binding_success = 0
    /\ ev = NoEvent
    /\ nomination = [p \in PairIds |-> "none"]
    /\ peer = PeerAgent([p \in PairIds |-> None])
    /\ net = NoMessages

(* Time passes.                                                            *)
Tick ==
    /\ now < MaxTime
    /\ now' = now + 1
    /\ out' = {}
    /\ binding_success' = 0
    /\ ev' = Event("tick", NoPair, FALSE, FALSE, FALSE)
    /\ UNCHANGED <<is_controlling, lite, start_time, pairs, nominated,
                   nominated_pair, selected_pair, pending>>

(* AgentInternal::nominate_pair: a USE-CANDIDATE request on nominated_pair *)
(* np, unless the message cannot be built.                                 *)
nominate_pair(np, build_ok) ==
    IF np # NoPair /\ build_ok THEN {Request(np, TRUE)} ELSE {}

(* ping_candidate of either role: one request without USE-CANDIDATE.       *)
ping_candidate(local, remote, build_ok) ==
    IF build_ok THEN {Request(<<local, remote>>, FALSE)} ELSE {}

(* ping_all_candidates: a request to every pair of the registry; a Waiting *)
(* pair becomes InProgress.                                                *)
ping_all_candidates(build_ok) ==
    UNION {ping_candidate(p[1], p[2], build_ok) :
             p \in {q \in PairIds : pairs[q] # None}}

swept(ps) ==
    [p \in PairIds |-> IF ps[p] = "Waiting" THEN "InProgress" ELSE ps[p]]

(* validate_selected_pair and check_keepalive: a keepalive on the selected *)
(* pair when it is still valid.                                            *)
keepalive(valid) == IF valid THEN {Keepalive(selected_pair)} ELSE {}

(* ControllingSelector::start                                              *)
ControllingStart ==
    /\ is_controlling
    /\ start_time' = now
    /\ nominated_pair' = NoPair
    /\ out' = {}
    /\ binding_success' = 0
    /\ ev' = Event("start", NoPair, FALSE, FALSE, FALSE)
    /\ UNCHANGED <<is_controlling, lite, now, pairs, nominated,
                   selected_pair, pending>>

(* ControlledSelector::start                                               *)
ControlledStart ==
    /\ ~is_controlling
    /\ out' = {}
    /\ binding_success' = 0
    /\ ev' = Event("start", NoPair, FALSE, FALSE, FALSE)
    /\ UNCHANGED <<is_controlling, lite, start_time, now, pairs, nominated,
                   nominated_pair, selected_pair, pending>>

(* A mutant of the controlling contact_candidates: the nominated_pair test *)
(* is skipped, so that the best valid pair is looked up again on every     *)
(* tick without a selected pair.                                           *)
ControllingContactCandidatesRenominates ==
    /\ is_controlling
    /\ binding_success' = 0
    /\ ev' = Event("contact_candidates", NoPair, FALSE, FALSE, FALSE)
    /\ \E build_ok \in BOOLEAN, valid \in BOOLEAN :
        IF selected_pair # NoPair
        THEN /\ out' = keepalive(valid)
             /\ UNCHANGED <<pairs, nominated, nominated_pair, pending>>
        ELSE LET p == get_best_valid_candidate_pair
                 has_nominated_pair ==
                     IF p # NoPair
                     THEN is_nominatable(p[1]) /\ is_nominatable(p[2])
                     ELSE FALSE
             IN  IF has_nominated_pair
                 THEN /\ nominated' = nominated \cup {p}
                      /\ nominated_pair' = p
                      /\ out' = nominate_pair(p, build_ok)
                      /\ pending' = register(pending, out')
                      /\ UNCHANGED pairs
                 ELSE /\ out' = ping_all_candidates(build_ok)
                      /\ pairs' = swept(pairs)
                      /\ pending' = register(pending, out')
                      /\ UNCHANGED <<nominated, nominated_pair>>
    /\ UNCHANGED <<is_controlling, lite, start_time, now, selected_pair>>

(* ControllingSelector::contact_candidates                                 *)
ControllingContactCandidates ==
    /\ is_controlling
    /\ binding_success' = 0
    /\ ev' = Event("contact_candidates", NoPair, FALSE, FALSE, FALSE)
    /\ \E build_ok \in BOOLEAN, valid \in BOOLEAN :
        IF selected_pair # NoPair
        THEN /\ out' = keepalive(valid)
             /\ UNCHANGED <<pairs, nominated, nominated_pair, pending>>
        ELSE IF nominated_pair # NoPair
        THEN /\ out' = nominate_pair(nominated_pair, build_ok)
             /\ pending' = register(pending, out')
             /\ UNCHANGED <<pairs, nominated, nominated_pair>>
        ELSE LET p == get_best_valid_candidate_pair
                 has_nominated_pair ==
                     IF p # NoPair
                     THEN is_nominatable(p[1]) /\ is_nominatable(p[2])
                     ELSE FALSE
             IN  IF has_nominated_pair
                 THEN /\ nominated' = nominated \cup {p}
                      /\ nominated_pair' = p
                      /\ out' = nominate_pair(p, build_ok)
                      /\ pending' = register(pending, out')
                      /\ UNCHANGED pairs
                 ELSE /\ out' = ping_all_candidates(build_ok)
                      /\ pairs' = swept(pairs)
                      /\ pending' = register(pending, out')
                      /\ UNCHANGED <<nominated, nominated_pair>>
    /\ UNCHANGED <<is_controlling, lite, start_time, now, selected_pair>>

(* ControlledSelector::contact_candidates                                  *)
ControlledContactCandidates ==
    /\ ~is_controlling
    /\ binding_success' = 0
    /\ ev' = Event("contact_candidates", NoPair, FALSE, FALSE, FALSE)
    /\ \E build_ok \in BOOLEAN, valid \in BOOLEAN :
        IF lite
        THEN /\ out' = {}
             /\ UNCHANGED <<pairs, pending>>
        ELSE IF selected_pair # NoPair
        THEN /\ out' = keepalive(valid)
             /\ UNCHANGED <<pairs, pending>>
        ELSE /\ out' = ping_all_candidates(build_ok)
             /\ pairs' = swept(pairs)
             /\ pending' = register(pending, out')
    /\ UNCHANGED <<is_controlling, lite, start_time, now, nominated,
                   nominated_pair, selected_pair>>

(* The transaction ids a success response can carry: a pending request's,  *)
(* or one that matches no pending request (NoTx).                          *)
TxIds == {k \in DOMAIN pending : pending[k] > 0} \cup {NoTx}

(* A mutant of the controlling handle_success_response's promotion test:   *)
(* the selected pair is replaced.                                          *)
promotes_always(is_use_candidate, selected_pair_is_none) ==
    is_use_candidate

(* A mutant of the promotion test: a response never promotes its pair.     *)
promotes_never(is_use_candidate, selected_pair_is_none) == FALSE

(* A mutant of the promotion test: the consumed request's USE-CANDIDATE    *)
(* flag is not looked at.                                                  *)
promotes_any_request(is_use_candidate, selected_pair_is_none) ==
    selected_pair_is_none

(* ControllingSelector::handle_success_response, the promotion test.       *)
promotes(is_use_candidate, selected_pair_is_none) ==
    is_use_candidate /\ selected_pair_is_none

(* A mutant of the symmetric-NAT test: the response is never discarded.    *)
nat_mismatch_never(transaction_addr, remote_addr) == FALSE

(* handle_success_response of both roles, the symmetric-NAT test.          *)
nat_mismatch(transaction_addr, remote_addr) ==
    transaction_addr # remote_addr

(* ControllingSelector::handle_success_response                            *)
ControllingHandleSuccessResponse ==
    /\ is_controlling
    /\ \E tx \in TxIds, local \in Locals, remote \in Remotes,
          remote_addr \in Addrs :
        /\ binding_success' = 0
        /\ ev' = Event("handle_success_response", <<local, remote>>,
                       tx[2], tx # NoTx, tx[1] = remote_addr)
        /\ out' = {}
        /\ IF tx # NoTx
           THEN /\ pending' = consume(pending, tx)
                /\ IF nat_mismatch(tx[1], remote_addr)
                   THEN UNCHANGED <<pairs, selected_pair>>
                   ELSE LET selected_pair_is_none == selected_pair = NoPair
                            p == find_pair(local, remote)
                        IN  IF p # NoPair
                            THEN /\ pairs' = [pairs EXCEPT ![p] = "Succeeded"]
                                 /\ IF promotes(tx[2], selected_pair_is_none)
                                    THEN selected_pair' = p
                                    ELSE UNCHANGED selected_pair
                            ELSE UNCHANGED <<pairs, selected_pair>>
           ELSE UNCHANGED <<pairs, selected_pair, pending>>
    /\ UNCHANGED <<is_controlling, lite, start_time, now, nominated,
                   nominated_pair>>

(* A mutant of the controlled handle_success_response: an accepted         *)
(* response to a pending request promotes its pair when none is selected.  *)
ControlledHandleSuccessResponsePromotes ==
    /\ ~is_controlling
    /\ \E tx \in TxIds, local \in Locals, remote \in Remotes,
          remote_addr \in Addrs :
        /\ binding_success' = 0
        /\ ev' = Event("handle_success_response", <<local, remote>>,
                       tx[2], tx # NoTx, tx[1] = remote_addr)
        /\ out' = {}
        /\ IF tx # NoTx
           THEN /\ pending' = consume(pending, tx)
                /\ IF nat_mismatch(tx[1], remote_addr)
                   THEN UNCHANGED <<pairs, selected_pair>>
                   ELSE LET p == find_pair(local, remote)
                        IN  IF p # NoPair
                            THEN /\ pairs' = [pairs EXCEPT ![p] = "Succeeded"]
                                 /\ selected_pair' =
                                      IF selected_pair = NoPair THEN p
                                      ELSE selected_pair
                            ELSE UNCHANGED <<pairs, selected_pair>>
           ELSE UNCHANGED <<pairs, selected_pair, pending>>
    /\ UNCHANGED <<is_controlling, lite, start_time, now, nominated,
                   nominated_pair>>

(* ControlledSelector::handle_success_response                             *)
ControlledHandleSuccessResponse ==
    /\ ~is_controlling
    /\ \E tx \in TxIds, local \in Locals, remote \in Remotes,
          remote_addr \in Addrs :
        /\ binding_success' = 0
        /\ ev' = Event("handle_success_response", <<local, remote>>,
                       tx[2], tx # NoTx, tx[1] = remote_addr)
        /\ out' = {}
        /\ IF tx # NoTx
           THEN /\ pending' = consume(pending, tx)
                /\ IF nat_mismatch(tx[1], remote_addr)
                   THEN UNCHANGED pairs
                   ELSE LET p == find_pair(local, remote)
                        IN  IF p # NoPair
                            THEN pairs' = [pairs EXCEPT ![p] = "Succeeded"]
                            ELSE UNCHANGED pairs
           ELSE UNCHANGED <<pairs, pending>>
    /\ UNCHANGED <<is_controlling, lite, start_time, now, nominated,
                   nominated_pair, selected_pair>>

(* A mutant of the controlling handle_binding_request's nomination test:   *)
(* the pair's state is not looked at.                                      *)
may_nominate_any_state(p) ==
    /\ nominated_pair = NoPair
    /\ selected_pair = NoPair
    /\ get_best_available_candidate_pair # NoPair
    /\ get_best_available_candidate_pair = p
    /\ is_nominatable(p[1])
    /\ is_nominatable(p[2])

(* ControllingSelector::handle_binding_request, the nomination test.       *)
may_nominate(p) ==
    /\ pairs[p] = "Succeeded"
    /\ nominated_pair = NoPair
    /\ selected_pair = NoPair
    /\ get_best_available_candidate_pair # NoPair
    /\ get_best_available_candidate_pair = p
    /\ is_nominatable(p[1])
    /\ is_nominatable(p[2])

(* ControllingSelector::handle_binding_request                             *)
ControllingHandleBindingRequest ==
    /\ is_controlling
    /\ \E local \in Locals, remote \in Remotes, use \in BOOLEAN,
          build_ok \in BOOLEAN :
        /\ binding_success' = 1
        /\ ev' = Event("handle_binding_request", <<local, remote>>,
                       use, FALSE, FALSE)
        /\ LET p == find_pair(local, remote)
           IN  IF p # NoPair
               THEN IF may_nominate(p)
                    THEN /\ nominated_pair' = p
                         /\ out' = {Success(<<local, remote>>)}
                                     \cup nominate_pair(p, build_ok)
                         /\ pending' = register(pending,
                                                nominate_pair(p, build_ok))
                         /\ UNCHANGED pairs
                    ELSE /\ out' = {Success(<<local, remote>>)}
                         /\ UNCHANGED <<pairs, nominated_pair, pending>>
               ELSE /\ pairs' = add_pair(pairs, local, remote)
                    /\ out' = {Success(<<local, remote>>)}
                    /\ UNCHANGED <<nominated_pair, pending>>
    /\ UNCHANGED <<is_controlling, lite, start_time, now, nominated,
                   selected_pair>>

(* A mutant of the controlled handle_binding_request: a USE-CANDIDATE      *)
(* request for a pair that is not Succeeded is answered as well.           *)
ControlledHandleBindingRequestAnswersAll ==
    /\ ~is_controlling
    /\ \E local \in Locals, remote \in Remotes, use_candidate \in BOOLEAN,
          build_ok \in BOOLEAN :
        /\ ev' = Event("handle_binding_request", <<local, remote>>,
                       use_candidate, FALSE, FALSE)
        /\ LET p == <<local, remote>>
               added == IF find_pair(local, remote) = NoPair
                        THEN add_pair(pairs, local, remote)
                        ELSE pairs
           IN  /\ pairs' = added
               /\ IF use_candidate
                  THEN IF added[p] = "Succeeded"
                       THEN /\ selected_pair' =
                                 IF selected_pair = NoPair THEN p
                                 ELSE selected_pair
                            /\ out' = {Success(p)}
                            /\ binding_success' = 1
                            /\ UNCHANGED pending
                       ELSE /\ out' = {Success(p)}
                                   \cup ping_candidate(local, remote, build_ok)
                            /\ binding_success' = 1
                            /\ pending' = register(pending,
                                  ping_candidate(local, remote, build_ok))
                            /\ UNCHANGED selected_pair
                  ELSE /\ out' = {Success(p)}
                                   \cup ping_candidate(local, remote, build_ok)
                       /\ binding_success' = 1
                       /\ pending' = register(pending,
                                  ping_candidate(local, remote, build_ok))
                       /\ UNCHANGED selected_pair
    /\ UNCHANGED <<is_controlling, lite, start_time, now, nominated,
                   nominated_pair>>

(* ControlledSelector::handle_binding_request                              *)
ControlledHandleBindingRequest ==
    /\ ~is_controlling
    /\ \E local \in Locals, remote \in Remotes, use_candidate \in BOOLEAN,
          build_ok \in BOOLEAN :
        /\ ev' = Event("handle_binding_request", <<local, remote>>,
                       use_candidate, FALSE, FALSE)
        /\ LET p == <<local, remote>>
               added == IF find_pair(local, remote) = NoPair
                        THEN add_pair(pairs, local, remote)
                        ELSE pairs
           IN  /\ pairs' = added
               /\ IF use_candidate
                  THEN IF added[p] = "Succeeded"
                       THEN /\ selected_pair' =
                                 IF selected_pair = NoPair THEN p
                                 ELSE selected_pair
                            /\ out' = {Success(p)}
                            /\ binding_success' = 1
                            /\ UNCHANGED pending
                       ELSE /\ out' = ping_candidate(local, remote, build_ok)
                            /\ binding_success' = 0
                            /\ pending' = register(pending, out')
                            /\ UNCHANGED selected_pair
                  ELSE /\ out' = {Success(p)}
                                   \cup ping_candidate(local, remote, build_ok)
                       /\ binding_success' = 1
                       /\ pending' = register(pending,
                                  ping_candidate(local, remote, build_ok))
                       /\ UNCHANGED selected_pair
    /\ UNCHANGED <<is_controlling, lite, start_time, now, nominated,
                   nominated_pair>>

SelectorNext ==
    \/ Tick
    \/ ControllingStart
    \/ ControlledStart
    \/ ControllingContactCandidates
    \/ ControlledContactCandidates
    \/ ControllingHandleSuccessResponse
    \/ ControlledHandleSuccessResponse
    \/ ControllingHandleBindingRequest
    \/ ControlledHandleBindingRequest

(***************************************************************************)
(* Two agents: the controlling selector above (agent A) and a controlled   *)
(* peer (agent B), exchanging binding requests and success responses.  The *)
(* peer's registry and pending table are indexed as A's are: a pair names  *)
(* the same two candidates on both sides.                                  *)
(***************************************************************************)

(* The one pair of the happy path: host candidates on both sides.          *)
HappyPair == <<"L1", "R1">>

(* A success response on the wire echoes the transaction id of the request *)
(* it answers; use tells which of the pair's requests that was.            *)
Response(p, use) == [kind |-> "success", pair |-> p, use |-> use]

Messages ==
    {Request(HappyPair, u) : u \in BOOLEAN}
        \cup {Response(HappyPair, u) : u \in BOOLEAN}

(* What an operation puts on the wire: its requests, and its success       *)
(* response with the transaction id of the request being answered.         *)
sent(outs, use) ==
    {m \in outs : m.kind = "request"}
        \cup {Response(m.pair, use) : m \in {o \in outs : o.kind = "success"}}

HappyPathInit ==
    /\ is_controlling = TRUE
    /\ lite = FALSE
    /\ start_time = 0
    /\ now = 0
    /\ pairs \in {add_pair([p \in PairIds |-> None], "L1", "R1"),
                   [p \in PairIds |-> None]}
    /\ nominated = {}
    /\ nominated_pair = NoPair
    /\ selected_pair = NoPair
    /\ pending = [k \in Destinations \X BOOLEAN |-> 0]
    /\ out = {}
    /\ binding_success = 0
    /\ ev = NoEvent
    /\ nomination = [p \in PairIds |-> "none"]
    /\ peer \in {PeerAgent(add_pair([p \in PairIds |-> None], "L1", "R1")),
                  PeerAgent([p \in PairIds |-> None])}
    /\ (pairs[HappyPair] # None \/ peer.pairs[HappyPair] # None)
    /\ net = NoMessages

HappyPathTick ==
    /\ Tick
    /\ UNCHANGED <<turn_vars, history_vars, peer_vars>>

(* A's tick: ControllingSelector::contact_candidates, its requests sent.   *)
AgentContactCandidates ==
    /\ ControllingContactCandidates
    /\ net' = [net EXCEPT !.to_peer = @ \cup sent(out', FALSE)]
    /\ UNCHANGED <<turn_vars, history_vars, peer>>

(* A receives m: the dispatch to handle_binding_request or                 *)
(* handle_success_response; a response's transaction is found when a       *)
(* request of its kind is pending, and it comes from the address the       *)
(* request went to.                                                         *)
AgentReceives(m) ==
    /\ m \in net.to_agent
    /\ IF m.kind = "request"
       THEN /\ ControllingHandleBindingRequest
            /\ ev'.pair = m.pair
            /\ ev'.use = m.use
       ELSE /\ ControllingHandleSuccessResponse
            /\ ev'.pair = m.pair
            /\ ev'.known = (pending[<<addr(m.pair[2]), m.use>>] > 0)
            /\ (ev'.known => ev'.use = m.use /\ ev'.same_addr)
    /\ net' = [to_agent |-> net.to_agent \ {m},
               to_peer |-> net.to_peer \cup sent(out', m.use)]
    /\ UNCHANGED <<turn_vars, history_vars, peer>>

(* B's tick: ControlledSelector::contact_candidates of a full agent.       *)
PeerContactCandidates(build_ok) ==
    /\ IF peer.selected_pair # NoPair
       THEN UNCHANGED <<peer, net>>
       ELSE LET reqs == UNION {ping_candidate(p[1], p[2], build_ok) :
                                 p \in {q \in PairIds : peer.pairs[q] # None}}
            IN  /\ peer' = [peer EXCEPT !.pairs = swept(@),
                                        !.pending = register(@, reqs)]
                /\ net' = [net EXCEPT !.to_agent = @ \cup reqs]
    /\ UNCHANGED <<ice_vars, turn_vars, history_vars>>

(* B receives a binding request: ControlledSelector::handle_binding_request *)
PeerHandleBindingRequest(m, build_ok) ==
    LET p == m.pair
        added == IF peer.pairs[p] = None
                 THEN add_pair(peer.pairs, p[1], p[2])
                 ELSE peer.pairs
        ping == ping_candidate(p[1], p[2], build_ok)
    IN  IF m.use
        THEN IF added[p] = "Succeeded"
             THEN /\ peer' = [peer EXCEPT
                                !.pairs = added,
                                !.selected_pair =
                                    IF @ = NoPair THEN p ELSE @]
                  /\ net' = [to_peer |-> net.to_peer \ {m},
                             to_agent |-> net.to_agent
                                            \cup {Response(p, m.use)}]
             ELSE /\ peer' = [peer EXCEPT
                                !.pairs = added,
                                !.pending = register(@, ping)]
                  /\ net' = [to_peer |-> net.to_peer \ {m},
                             to_agent |-> net.to_agent \cup ping]
        ELSE /\ peer' = [peer EXCEPT !.pairs = added,
                                     !.pending = register(@, ping)]
             /\ net' = [to_peer |-> net.to_peer \ {m},
                        to_agent |-> net.to_agent
                                       \cup {Response(p, m.use)} \cup ping]

(* B receives a success response:                                          *)
(* ControlledSelector::handle_success_response; the response comes from    *)
(* the address its request went to.                                        *)
PeerHandleSuccessResponse(m) ==
    LET p == m.pair
        tx == <<addr(p[2]), m.use>>
    IN  /\ IF peer.pending[tx] > 0
           THEN IF nat_mismatch(tx[1], addr(p[2]))
                THEN peer' = [peer EXCEPT !.pending = consume(@, tx)]
                ELSE IF peer.pairs[p] # None
                THEN peer' = [peer EXCEPT
                                !.pending = consume(@, tx),
                                !.pairs = [@ EXCEPT ![p] = "Succeeded"]]
                ELSE peer' = [peer EXCEPT !.pending = consume(@, tx)]
           ELSE UNCHANGED peer
        /\ net' = [net EXCEPT !.to_peer = @ \ {m}]

(* B receives m.                                                           *)
PeerReceives(m) ==
    /\ m \in net.to_peer
    /\ IF m.kind = "request"
       THEN \E build_ok \in BOOLEAN : PeerHandleBindingRequest(m, build_ok)
       ELSE PeerHandleSuccessResponse(m)
    /\ UNCHANGED <<ice_vars, turn_vars, history_vars>>

HappyPathNext ==
    \/ HappyPathTick
    \/ AgentContactCandidates
    \/ \E build_ok \in BOOLEAN : PeerContactCandidates(build_ok)
    \/ \E m \in Messages : AgentReceives(m)
    \/ \E m \in Messages : PeerReceives(m)

(* The operations of the controlled selector.                              *)
ControlledNext ==
    \/ Tick
    \/ ControlledStart
    \/ ControlledContactCandidates
    \/ ControlledHandleSuccessResponse
    \/ ControlledHandleBindingRequest

(* The history of nominations, observed on each step of the selector.      *)
Remember ==
    nomination' =
      [p \in PairIds |->
         IF ev'.op = "handle_binding_request" /\ ev'.pair = p
         THEN IF ev'.use /\ pairs[p] # "Succeeded"
                 /\ out' = {Request(p, FALSE)}
              THEN "pending" ELSE "none"
         ELSE IF /\ ev'.op = "handle_success_response" /\ ev'.pair = p
                 /\ ev'.known /\ ev'.same_addr /\ ~ev'.use
                 /\ nomination[p] = "pending"
                 /\ pairs'[p] = "Succeeded"
         THEN "ready"
         ELSE nomination[p]]

(***************************************************************************)
(* Claims about the selector.                                              *)
(***************************************************************************)

(* now - start_time > min_wait(type), stated on the clock; a candidate of  *)
(* Unspecified type never passes.                                          *)
PassesGate(c) ==
    /\ candidate_type(c) # "Unspecified"
    /\ now - start_time > acceptance_min_wait(candidate_type(c))

PendingCount(pend) ==
    LET RECURSIVE Sum(_)
        Sum(K) == IF K = {} THEN 0
                  ELSE LET k == CHOOSE x \in K : TRUE
                       IN  pend[k] + Sum(K \ {k})
    IN  Sum(DOMAIN pend)

(* C1: in either role, once a pair is the selected pair no selector        *)
(* operation replaces it (or clears it): at most one pair is ever          *)
(* selected.                                                               *)
C1_SelectedNeverReplaced ==
    [][selected_pair # NoPair => selected_pair' = selected_pair]_ice_vars

(* C1 witness: with a pair selected, an accepted response to a nominating  *)
(* request has arrived on another pair and made it Succeeded.              *)
C1_Witness ==
    /\ selected_pair # NoPair
    /\ ev.op = "handle_success_response"
    /\ ev.known /\ ev.same_addr /\ ev.use
    /\ ev.pair # selected_pair
    /\ pairs[ev.pair] = "Succeeded"

(* A success response that the selector discards: unknown transaction id,  *)
(* source address other than the request's destination, or a (local,       *)
(* remote) that is not in the registry.                                    *)
DiscardedResponse ==
    /\ ev'.op = "handle_success_response"
    /\ (~ev'.known \/ ~ev'.same_addr \/ pairs[ev'.pair] = None)

(* C2: in both roles a discarded success response changes no pair's state, *)
(* creates no pair and changes neither nominated_pair nor the selected     *)
(* pair; it only consumes its transaction when the id was pending (so in   *)
(* the symmetric-NAT case the transaction stays consumed).                 *)
C2_DiscardedResponseFrame ==
    [][DiscardedResponse =>
         /\ pairs' = pairs
         /\ nominated' = nominated
         /\ nominated_pair' = nominated_pair
         /\ selected_pair' = selected_pair
         /\ out' = {}
         /\ (ev'.known => PendingCount(pending') = PendingCount(pending) - 1)
         /\ (~ev'.known => pending' = pending)]_ice_vars

(* C2 witness: a response from another source address than its request's   *)
(* destination has been handled and the pair is still InProgress.          *)
C2_Witness ==
    /\ ev.op = "handle_success_response"
    /\ ev.known /\ ~ev.same_addr
    /\ pairs[ev.pair] = "InProgress"

(* C3: every USE-CANDIDATE request the controlling selector emits is on a  *)
(* pair whose local and remote candidate both pass the gate                *)
(* now - start_time > min_wait(type) at emission time.                     *)
C3_NominationGate ==
    is_controlling =>
        \A m \in out :
            (m.kind = "request" /\ m.use) =>
                PassesGate(m.pair[1]) /\ PassesGate(m.pair[2])

(* C3 witness: contact_candidates has emitted a nominating request on a    *)
(* pair with a server-reflexive remote candidate.                          *)
C3_Witness ==
    /\ is_controlling
    /\ ev.op = "contact_candidates"
    /\ \E m \in out : /\ m.kind = "request" /\ m.use
                      /\ candidate_type(m.pair[2]) = "ServerReflexive"

(* C4: in the controlling role nominated_pair is assigned only by          *)
(* contact_candidates and handle_binding_request, to a pair that is        *)
(* Succeeded and whose endpoints both pass the gate; in                    *)
(* handle_binding_request only when nominated_pair is None, no pair is     *)
(* selected and the pair is the request's pair and the best available      *)
(* one.  It is cleared only by start, and never assigned in the controlled *)
(* role.                                                                   *)
C4_NominatedPairAssignment ==
    [][nominated_pair' # nominated_pair =>
         IF nominated_pair' = NoPair
         THEN ev'.op = "start"
         ELSE /\ is_controlling
              /\ ev'.op \in {"contact_candidates", "handle_binding_request"}
              /\ pairs[nominated_pair'] = "Succeeded"
              /\ PassesGate(nominated_pair'[1])
              /\ PassesGate(nominated_pair'[2])
              /\ (ev'.op = "handle_binding_request" =>
                    /\ nominated_pair = NoPair
                    /\ selected_pair = NoPair
                    /\ nominated_pair' = ev'.pair
                    /\ nominated_pair' = get_best_available_candidate_pair)
    ]_ice_vars

(* C4 witness: handle_binding_request has just nominated the request's     *)
(* pair.                                                                   *)
C4_Witness ==
    /\ is_controlling
    /\ ev.op = "handle_binding_request"
    /\ nominated_pair = ev.pair
    /\ \E m \in out : m.kind = "request" /\ m.use

(* C17: in the controlled role the selected pair changes only inside       *)
(* handle_binding_request, and only when the request carries               *)
(* USE-CANDIDATE, its pair is Succeeded when the request arrives and no    *)
(* pair is selected; the request's pair is then the selected one.  A       *)
(* USE-CANDIDATE request for a pair that is not Succeeded (one the request *)
(* adds included) selects nothing, is not answered with a success response *)
(* and triggers only ping_candidate on the pair.  handle_success_response  *)
(* and contact_candidates never select a pair in this role.                *)
C17_ControlledSelection ==
    [][~is_controlling =>
         /\ (selected_pair' # selected_pair =>
                /\ ev'.op = "handle_binding_request"
                /\ ev'.use
                /\ pairs[ev'.pair] = "Succeeded"
                /\ selected_pair = NoPair
                /\ selected_pair' = ev'.pair)
         /\ (/\ ev'.op = "handle_binding_request"
             /\ ev'.use
             /\ pairs[ev'.pair] # "Succeeded"
             => /\ selected_pair' = selected_pair
                /\ out' \in {{}, {Request(ev'.pair, FALSE)}}
                /\ pending' = register(pending, out')
                /\ pairs'[ev'.pair] \in PairStates \ {"Succeeded"})
         /\ (ev'.op \in {"handle_success_response", "contact_candidates"}
             => selected_pair' = selected_pair)
    ]_ice_vars

(* C17 witness: a USE-CANDIDATE request for a pair the registry did not    *)
(* hold has added the pair and pinged it, with no pair selected; an        *)
(* earlier response had made another pair Succeeded.                       *)
C17_Witness ==
    /\ ~is_controlling
    /\ ev.op = "handle_binding_request"
    /\ ev.use
    /\ pairs[ev.pair] = "Waiting"
    /\ out = {Request(ev.pair, FALSE)}
    /\ selected_pair = NoPair
    /\ \E q \in PairIds : pairs[q] = "Succeeded"

(* The best Succeeded pair, when it exists and both its candidates pass    *)
(* the gate.                                                               *)
BestValidPassesGate ==
    /\ get_best_valid_candidate_pair # NoPair
    /\ PassesGate(get_best_valid_candidate_pair[1])
    /\ PassesGate(get_best_valid_candidate_pair[2])

(* C19: a controlling contact_candidates takes exactly one branch, in this *)
(* precedence.  (1) A pair is selected: at most a keepalive on it is       *)
(* emitted, no binding request, and nothing else changes.  (2) Else        *)
(* nominated_pair is set: the only message is a USE-CANDIDATE request on   *)
(* nominated_pair, and nominated_pair, the flags and the pair states stay. *)
(* (3) Else the best valid pair exists and both its candidates pass the    *)
(* gate: its nominated flag is set, it becomes nominated_pair and the only *)
(* message is a USE-CANDIDATE request on it.  (4) Otherwise: a request     *)
(* without USE-CANDIDATE to every pair of the registry, nominated_pair and *)
(* the flags stay.  (A request is emitted unless its message cannot be     *)
(* built.)  The tick never changes the selected pair.                      *)
C19_ContactCandidatesBranches ==
    [][is_controlling /\ ev'.op = "contact_candidates" =>
         /\ selected_pair' = selected_pair
         /\ IF selected_pair # NoPair
            THEN /\ out' \in {{}, {Keepalive(selected_pair)}}
                 /\ UNCHANGED <<pairs, nominated, nominated_pair, pending>>
            ELSE IF nominated_pair # NoPair
            THEN /\ out' \in {{}, {Request(nominated_pair, TRUE)}}
                 /\ UNCHANGED <<pairs, nominated, nominated_pair>>
            ELSE IF BestValidPassesGate
            THEN /\ nominated' =
                       nominated \cup {get_best_valid_candidate_pair}
                 /\ nominated_pair' = get_best_valid_candidate_pair
                 /\ out' \in {{}, {Request(nominated_pair', TRUE)}}
                 /\ UNCHANGED pairs
            ELSE /\ out' \in {{}, {Request(q, FALSE) :
                                     q \in {r \in PairIds : pairs[r] # None}}}
                 /\ UNCHANGED <<nominated, nominated_pair>>
    ]_ice_vars

(* C19 witness: branch (2) before branch (3): with no pair selected, the   *)
(* tick has sent its nominating request on nominated_pair although a       *)
(* better valid pair passes the gate.                                      *)
C19_Witness ==
    /\ is_controlling
    /\ ev.op = "contact_candidates"
    /\ selected_pair = NoPair
    /\ nominated_pair # NoPair
    /\ out = {Request(nominated_pair, TRUE)}
    /\ BestValidPassesGate
    /\ get_best_valid_candidate_pair # nominated_pair

(* C20: in the controlling role an accepted success response (its          *)
(* transaction is pending, the request's destination equals the observed   *)
(* source address, the pair is in the registry) sets the pair's state to   *)
(* Succeeded and changes no other pair; the pair becomes the selected pair *)
(* if and only if the consumed request carried USE-CANDIDATE and no pair   *)
(* was selected, and otherwise the selected pair stays as it was: a        *)
(* response to a request without USE-CANDIDATE never selects.              *)
C20_AcceptedResponse ==
    [][/\ is_controlling
       /\ ev'.op = "handle_success_response"
       /\ ev'.known /\ ev'.same_addr
       /\ pairs[ev'.pair] # None
       => /\ pairs' = [pairs EXCEPT ![ev'.pair] = "Succeeded"]
          /\ selected_pair' =
                IF ev'.use /\ selected_pair = NoPair
                THEN ev'.pair ELSE selected_pair
          /\ (~ev'.use => selected_pair' = selected_pair)
    ]_ice_vars

(* C20 witness: the response to a request without USE-CANDIDATE has been   *)
(* accepted with no pair selected: the pair is Succeeded, none selected.   *)
C20_Witness ==
    /\ is_controlling
    /\ ev.op = "handle_success_response"
    /\ ev.known /\ ev.same_addr /\ ~ev.use
    /\ pairs[ev.pair] = "Succeeded"
    /\ selected_pair = NoPair

(* C18: in the controlled role, after a USE-CANDIDATE request arrived for  *)
(* a pair that was not Succeeded and an accepted response to the triggered *)
(* ping has since made the pair Succeeded, the next inbound binding        *)
(* request for that pair, with or without USE-CANDIDATE, makes it the      *)
(* selected pair when no pair is selected.                                 *)
C18_RetroactiveNomination ==
    [][/\ ~is_controlling
       /\ ev'.op = "handle_binding_request"
       /\ nomination[ev'.pair] = "ready"
       /\ selected_pair = NoPair
       => selected_pair' = ev'.pair]_vars

(* C16: happy-path nomination ends in agreement.  With a controlling agent *)
(* and a controlled agent, one host pair (acceptance wait 0), every        *)
(* message delivered and ticks and deliveries scheduled fairly, from some  *)
(* point on both agents have the host pair as their selected pair, for     *)
(* ever.                                                                   *)
C16_HappyPathAgreement ==
    <>[](selected_pair = HappyPair /\ peer.selected_pair = HappyPair)

(* C16 witness: both agents have selected the host pair, the controlling   *)
(* one on the response to its nominating request.                          *)
C16_Witness ==
    /\ selected_pair = HappyPair
    /\ peer.selected_pair = HappyPair
    /\ ev.op = "handle_success_response"
    /\ ev.use /\ ev.known

(* C26: an inbound binding request handled by the selector is answered     *)
(* with at most one Binding Success response, for the request's pair.  In  *)
(* the controlling role with exactly one, whether or not the registry      *)
(* holds the pair.  In the controlled role with exactly one, except for a  *)
(* USE-CANDIDATE request for a pair that is not Succeeded (one the request *)
(* adds included): that one gets no response and emits nothing but the     *)
(* triggered ping.                                                         *)
C26_OneBindingSuccess ==
    [][ev'.op = "handle_binding_request" =>
         /\ binding_success' <= 1
         /\ \A m \in out' : m.kind = "success" => m = Success(ev'.pair)
         /\ (Success(ev'.pair) \in out' <=> binding_success' = 1)
         /\ (is_controlling => binding_success' = 1)
         /\ (~is_controlling =>
               IF ev'.use /\ pairs[ev'.pair] # "Succeeded"
               THEN /\ binding_success' = 0
                    /\ out' \in {{}, {Request(ev'.pair, FALSE)}}
               ELSE binding_success' = 1)
    ]_ice_vars

(* C26 witness: the controlling selector has answered a request for a pair *)
(* its registry did not hold (the pair is there now, Waiting).             *)
C26_Witness ==
    /\ is_controlling
    /\ ev.op = "handle_binding_request"
    /\ pairs[ev.pair] = "Waiting"
    /\ binding_success = 1
    /\ out = {Success(ev.pair)}

(* C24: in the controlling role, whenever handle_success_response makes a  *)
(* pair the selected pair, that pair is the agent's nominated_pair.        *)
C24_PromotedIsNominated ==
    [][/\ is_controlling
       /\ ev'.op = "handle_success_response"
       /\ selected_pair' # selected_pair
       => selected_pair' = nominated_pair']_ice_vars

(***************************************************************************)
(*                       T U R N   A L L O C A T I O N                     *)
(***************************************************************************)

(* Peer transport addresses <<ip, port>>, of two IPs.                      *)
Peers == {<<"ip1", 1>>, <<"ip2", 1>>}
NoPeer == <<None, 0>>

(* Channel numbers.                                                        *)
Numbers == {"0x4000", "0x4001"}

(* fn addr2ipfingerprint                                                   *)
addr2ipfingerprint(a) == a[1]

Fingerprints == {addr2ipfingerprint(a) : a \in Peers}

(* PERMISSION_TIMEOUT (5 minutes), the unit of time of the allocation.     *)
PERMISSION_TIMEOUT == 1

(* The lifetimes callers pass, in the same unit.                           *)
Lifetimes == 1 .. MaxLifetime

Callers == 1 .. NumCallers
LifetimeTaskIds == 1 .. MaxLifetimeTasks

(* A started Permission or ChannelBind owns an expiry task: running tells  *)
(* whether the task is alive (started, sender not dropped, not expired)    *)
(* and left is the time left on its timer.                                 *)
NoTimer == [running |-> FALSE, left |-> 0]
Timer(d) == [running |-> TRUE, left |-> d]

(* Map entries.                                                            *)
NoPermission == [present |-> FALSE, timer |-> NoTimer]
NoChannelBind == [present |-> FALSE, peer |-> NoPeer, timer |-> NoTimer]

(* A task spawned by Allocation::start: its timer, whether its channel's   *)
(* sender is alive (open) and the lifetime buffered in the channel (0:     *)
(* empty; mpsc::channel(1)).                                               *)
FreeLifetimeTask == [pc |-> "free", left |-> 0, open |-> FALSE, buf |-> 0]

(* A caller's call in progress: its position, its arguments while they    *)
(* are still to be read, and the address add_permission was called with    *)
(* (paddr).                                                                *)
Idle == [pc |-> "idle", op |-> None, number |-> None, peer |-> NoPeer,
         lifetime |-> 0, paddr |-> NoPeer]

(* The last step: the operation, whether it returned and with what, and    *)
(* the call's peer argument and the address its permission was added for.  *)
Ret(c, done, result) ==
    [op |-> c.op, done |-> done, result |-> result, peer |-> c.peer,
     paddr |-> c.paddr]

Step(op, done, result) ==
    [op |-> op, done |-> done, result |-> result, peer |-> NoPeer,
     paddr |-> NoPeer]

(* Allocation::new; the manager that creates the allocation registers it.  *)
AllocationInit ==
    /\ permissions = [f \in Fingerprints |-> NoPermission]
    /\ channel_bindings = [n \in Numbers |-> NoChannelBind]
    /\ closed = FALSE
    /\ reset_tx = 0
    /\ timer_expired = FALSE
    /\ registered = TRUE
    /\ lifetime_tasks = [i \in LifetimeTaskIds |-> FreeLifetimeTask]
    /\ calls = [t \in Callers |-> Idle]
    /\ cb_lock = 0
    /\ close_pc = "idle"
    /\ ret = Step("new", TRUE, None)
    /\ orphans = [f \in Fingerprints |-> {}]
    /\ promised = 0

(* Permission::refresh and ChannelBind::refresh: the running timer is      *)
(* reset to d; an entry whose task has ended is left alone.                *)
refresh_timer(tm, d) == IF tm.running THEN Timer(d) ELSE tm

(* Permission::stop and ChannelBind::stop: the sender is dropped and the   *)
(* task ends without removing anything.                                    *)
stop_timer(tm) == NoTimer

(* No &self call is in progress and no close(): what a &mut self call      *)
(* (close, start, stop) needs.                                             *)
Exclusive == close_pc = "idle" /\ \A t \in Callers : calls[t].pc = "idle"

Proceed(t, c) ==
    /\ calls' = [calls EXCEPT ![t] = c]
    /\ ret' = Step(c.op, FALSE, None)

(* A mutant of the return of a call: the channel_bindings guard is kept.   *)
ReturnKeepsGuard(t, c, result) ==
    /\ calls' = [calls EXCEPT ![t] = Idle]
    /\ ret' = Ret(c, TRUE, result)
    /\ UNCHANGED cb_lock

(* The call of caller t returns; the channel_bindings guard it holds is    *)
(* dropped.                                                                *)
Return(t, c, result) ==
    /\ calls' = [calls EXCEPT ![t] = Idle]
    /\ ret' = Ret(c, TRUE, result)
    /\ cb_lock' = IF cb_lock = t THEN 0 ELSE cb_lock

(* A mutant of add_permission's timeout: the longest lifetime of a bind.   *)
permission_timeout_of_bind == MaxLifetime

(* The lifetime add_permission starts and refreshes a Permission with.     *)
permission_timeout == PERMISSION_TIMEOUT

(* Allocation::add_permission, lines 72-77: under the permissions lock, an *)
(* existing entry is refreshed and the call returns.                       *)
add_permission_check(t, c) ==
    LET f == addr2ipfingerprint(c.paddr)
    IN  IF permissions[f].present
        THEN /\ permissions' = [permissions EXCEPT ![f].timer =
                   refresh_timer(@, permission_timeout)]
             /\ Return(t, c, "Ok")
        ELSE /\ Proceed(t, [c EXCEPT !.pc = "ap_insert"])
             /\ UNCHANGED <<permissions, cb_lock>>

(* Allocation::add_permission called by a client.                          *)
AddPermission(t) ==
    /\ close_pc = "idle"
    /\ calls[t].pc = "idle"
    /\ \E a \in Peers :
        add_permission_check(t, [Idle EXCEPT !.op = "add_permission",
                                             !.peer = a, !.paddr = a])
    /\ UNCHANGED <<channel_bindings, closed, reset_tx, timer_expired,
                   registered, lifetime_tasks, close_pc>>

(* Allocation::add_permission called by add_channel_bind.                  *)
AddPermissionOfBind(t) ==
    /\ calls[t].pc = "ap_check"
    /\ add_permission_check(t, calls[t])
    /\ UNCHANGED <<channel_bindings, closed, reset_tx, timer_expired,
                   registered, lifetime_tasks, close_pc>>

(* Allocation::add_permission, lines 79-85: p.start(PERMISSION_TIMEOUT),   *)
(* which touches the caller's own Permission only, and the insert under    *)
(* the lock; the entry it replaces, if any, is dropped.                    *)
AddPermissionInsert(t) ==
    /\ calls[t].pc = "ap_insert"
    /\ permissions' =
         [permissions EXCEPT ![addr2ipfingerprint(calls[t].paddr)] =
            [present |-> TRUE, timer |-> Timer(permission_timeout)]]
    /\ Return(t, calls[t], "Ok")
    /\ UNCHANGED <<channel_bindings, closed, reset_tx, timer_expired,
                   registered, lifetime_tasks, close_pc>>

(* Allocation::has_permission                                              *)
HasPermission(t) ==
    /\ close_pc = "idle"
    /\ calls[t].pc = "idle"
    /\ \E a \in Peers :
        Return(t, [Idle EXCEPT !.op = "has_permission"],
               IF permissions[addr2ipfingerprint(a)].present
               THEN "true" ELSE "false")
    /\ UNCHANGED <<permissions, channel_bindings, closed, reset_tx,
                   timer_expired, registered, lifetime_tasks, close_pc>>

(* Allocation::remove_permission                                           *)
RemovePermission(t) ==
    /\ close_pc = "idle"
    /\ calls[t].pc = "idle"
    /\ \E a \in Peers :
        LET f == addr2ipfingerprint(a)
        IN  /\ permissions' = [permissions EXCEPT ![f] = NoPermission]
            /\ Return(t, [Idle EXCEPT !.op = "remove_permission"],
                      IF permissions[f].present THEN "true" ELSE "false")
    /\ UNCHANGED <<channel_bindings, closed, reset_tx, timer_expired,
                   registered, lifetime_tasks, close_pc>>

(* A mutant of get_channel_addr: no bind is ever found.                    *)
get_channel_addr_none(number) == NoPeer

(* Allocation::get_channel_addr: the peer of the bind of a number.         *)
get_channel_addr(number) ==
    IF channel_bindings[number].present
    THEN channel_bindings[number].peer ELSE NoPeer

(* Allocation::get_channel_number: the numbers of the binds whose peer is  *)
(* a; the loop over the map's values returns the first it meets, in the    *)
(* HashMap's order.                                                        *)
get_channel_number(a) ==
    {n \in Numbers : channel_bindings[n].present /\ channel_bindings[n].peer = a}

(* Allocation::add_channel_bind, lines 102-106: the number's peer.         *)
AddChannelBind(t) ==
    /\ close_pc = "idle"
    /\ calls[t].pc = "idle"
    /\ cb_lock = 0
    /\ \E n \in Numbers, a \in Peers, lifetime \in Lifetimes :
        LET c == [Idle EXCEPT !.op = "add_channel_bind", !.number = n,
                              !.peer = a, !.lifetime = lifetime]
        IN  IF get_channel_addr(n) # NoPeer /\ get_channel_addr(n) # a
            THEN Return(t, c, "ERR_SAME_CHANNEL_DIFFERENT_PEER")
            ELSE /\ Proceed(t, [c EXCEPT !.pc = "cb_number"])
                 /\ UNCHANGED cb_lock
    /\ UNCHANGED <<permissions, channel_bindings, closed, reset_tx,
                   timer_expired, registered, lifetime_tasks, close_pc>>

(* Allocation::add_channel_bind, lines 108-112: the peer's number.         *)
AddChannelBindPeer(t) ==
    /\ calls[t].pc = "cb_number"
    /\ cb_lock = 0
    /\ LET found == get_channel_number(calls[t].peer)
       IN  \/ /\ found = {}
              /\ Proceed(t, [calls[t] EXCEPT !.pc = "cb_get"])
              /\ UNCHANGED cb_lock
           \/ \E number \in found :
                IF number # calls[t].number
                THEN Return(t, calls[t], "ERR_SAME_CHANNEL_DIFFERENT_PEER")
                ELSE /\ Proceed(t, [calls[t] EXCEPT !.pc = "cb_get"])
                     /\ UNCHANGED cb_lock
    /\ UNCHANGED <<permissions, channel_bindings, closed, reset_tx,
                   timer_expired, registered, lifetime_tasks, close_pc>>

(* Allocation::add_channel_bind, lines 115-125: an existing bind of the    *)
(* number is refreshed and a permission is added for ITS peer, the guard   *)
(* of channel_bindings being held until the call returns.                  *)
AddChannelBindGet(t) ==
    /\ calls[t].pc = "cb_get"
    /\ cb_lock = 0
    /\ LET cb == channel_bindings[calls[t].number]
       IN  IF cb.present
           THEN /\ channel_bindings' =
                     [channel_bindings EXCEPT ![calls[t].number].timer =
                        refresh_timer(@, calls[t].lifetime)]
                /\ cb_lock' = t
                /\ Proceed(t, [calls[t] EXCEPT !.pc = "ap_check",
                                               !.number = None,
                                               !.lifetime = 0,
                                               !.paddr = cb.peer])
           ELSE /\ Proceed(t, [calls[t] EXCEPT !.pc = "cb_insert"])
                /\ UNCHANGED <<channel_bindings, cb_lock>>
    /\ UNCHANGED <<permissions, closed, reset_tx, timer_expired, registered,
                   lifetime_tasks, close_pc>>

(* Allocation::add_channel_bind, lines 127-139: c.start(lifetime), which   *)
(* touches the caller's own ChannelBind only, the insert under the lock,   *)
(* then add_permission for the call's peer.                                *)
AddChannelBindInsert(t) ==
    /\ calls[t].pc = "cb_insert"
    /\ cb_lock = 0
    /\ channel_bindings' =
         [channel_bindings EXCEPT ![calls[t].number] =
            [present |-> TRUE, peer |-> calls[t].peer,
             timer |-> Timer(calls[t].lifetime)]]
    /\ Proceed(t, [calls[t] EXCEPT !.pc = "ap_check",
                                   !.number = None,
                                   !.lifetime = 0,
                                   !.paddr = calls[t].peer])
    /\ UNCHANGED <<permissions, closed, reset_tx, timer_expired, registered,
                   lifetime_tasks, cb_lock, close_pc>>

(* Allocation::remove_channel_bind                                         *)
RemoveChannelBind(t) ==
    /\ close_pc = "idle"
    /\ calls[t].pc = "idle"
    /\ cb_lock = 0
    /\ \E n \in Numbers :
        /\ channel_bindings' = [channel_bindings EXCEPT ![n] = NoChannelBind]
        /\ Return(t, [Idle EXCEPT !.op = "remove_channel_bind"],
                  IF channel_bindings[n].present THEN "true" ELSE "false")
    /\ UNCHANGED <<permissions, closed, reset_tx, timer_expired, registered,
                   lifetime_tasks, close_pc>>

(* A mutant of the expiry tasks: closed is not looked at.                  *)
expiry_rechecks_closed_never == FALSE

(* The expiry tasks re-check closed when their timer wakes them.           *)
expiry_rechecks_closed == closed

(* The expiry task of a Permission: its timer wakes it; on a closed        *)
(* allocation it ends, otherwise the entry removes itself from the map.    *)
PermissionExpires(f) ==
    /\ permissions[f].present
    /\ permissions[f].timer = Timer(0)
    /\ permissions' = [permissions EXCEPT ![f] =
         IF expiry_rechecks_closed
         THEN [@ EXCEPT !.timer = NoTimer] ELSE NoPermission]
    /\ ret' = Step("permission_timer", FALSE, None)
    /\ UNCHANGED <<channel_bindings, closed, reset_tx, timer_expired,
                   registered, lifetime_tasks, calls, cb_lock, close_pc>>

(* The expiry task of a ChannelBind: likewise; it takes the lock of        *)
(* channel_bindings to remove its entry.                                   *)
ChannelBindExpires(n) ==
    /\ cb_lock = 0
    /\ channel_bindings[n].present
    /\ channel_bindings[n].timer = Timer(0)
    /\ channel_bindings' = [channel_bindings EXCEPT ![n] =
         IF expiry_rechecks_closed
         THEN [@ EXCEPT !.timer = NoTimer] ELSE NoChannelBind]
    /\ ret' = Step("channel_bind_timer", FALSE, None)
    /\ UNCHANGED <<permissions, closed, reset_tx, timer_expired, registered,
                   lifetime_tasks, calls, cb_lock, close_pc>>

(* One unit of time passes on every running timer.                         *)
elapsed(tm) == IF tm.running /\ tm.left > 0 THEN Timer(tm.left - 1) ELSE tm

Elapse ==
    /\ \/ \E f \in Fingerprints : elapsed(permissions[f].timer) # permissions[f].timer
       \/ \E n \in Numbers : elapsed(channel_bindings[n].timer) # channel_bindings[n].timer
       \/ \E i \in LifetimeTaskIds :
            lifetime_tasks[i].pc = "select" /\ lifetime_tasks[i].left > 0
    /\ permissions' = [f \in Fingerprints |->
                         [permissions[f] EXCEPT !.timer = elapsed(@)]]
    /\ channel_bindings' = [n \in Numbers |->
                         [channel_bindings[n] EXCEPT !.timer = elapsed(@)]]
    /\ lifetime_tasks' = [i \in LifetimeTaskIds |->
         IF lifetime_tasks[i].pc = "select" /\ lifetime_tasks[i].left > 0
         THEN [lifetime_tasks[i] EXCEPT !.left = @ - 1]
         ELSE lifetime_tasks[i]]
    /\ ret' = Step("elapse", FALSE, None)
    /\ UNCHANGED <<closed, reset_tx, timer_expired, registered, calls,
                   cb_lock, close_pc>>

(* self.reset_tx.take(): the sender of the lifetime task's channel is      *)
(* dropped.                                                                *)
drop_sender(lt, k) ==
    [i \in LifetimeTaskIds |->
       IF i = k THEN [lt[i] EXCEPT !.open = FALSE] ELSE lt[i]]

(* A mutant of close's guard: close never returns early.                   *)
close_returns_early_never == FALSE

(* Allocation::close, lines 173-175.                                       *)
close_returns_early == closed

(* Allocation::close, lines 172-178: the guard, closed = true, stop().     *)
Close ==
    /\ Exclusive
    /\ IF close_returns_early
       THEN /\ ret' = Step("close", TRUE, "Ok")
            /\ UNCHANGED <<closed, reset_tx, lifetime_tasks, close_pc>>
       ELSE /\ closed' = TRUE
            /\ reset_tx' = 0
            /\ lifetime_tasks' = drop_sender(lifetime_tasks, reset_tx)
            /\ close_pc' = "permissions"
            /\ ret' = Step("close", FALSE, None)
    /\ UNCHANGED <<permissions, channel_bindings, timer_expired, registered,
                   calls, cb_lock>>

(* Allocation::close, lines 180-185: every permission is stopped.          *)
ClosePermissions ==
    /\ close_pc = "permissions"
    /\ permissions' = [f \in Fingerprints |->
                         [permissions[f] EXCEPT !.timer = stop_timer(@)]]
    /\ close_pc' = "channel_bindings"
    /\ ret' = Step("close", FALSE, None)
    /\ UNCHANGED <<channel_bindings, closed, reset_tx, timer_expired,
                   registered, lifetime_tasks, calls, cb_lock>>

(* Allocation::close, lines 187-194: every channel bind is stopped.        *)
CloseChannelBindings ==
    /\ close_pc = "channel_bindings"
    /\ cb_lock = 0
    /\ channel_bindings' = [n \in Numbers |->
                         [channel_bindings[n] EXCEPT !.timer = stop_timer(@)]]
    /\ close_pc' = "idle"
    /\ ret' = Step("close", TRUE, "Ok")
    /\ UNCHANGED <<permissions, closed, reset_tx, timer_expired, registered,
                   lifetime_tasks, calls, cb_lock>>

HasFreeLifetimeTask == \E i \in LifetimeTaskIds : lifetime_tasks[i].pc = "free"

FreeLifetimeTaskId ==
    CHOOSE i \in LifetimeTaskIds :
        /\ lifetime_tasks[i].pc = "free"
        /\ \A j \in LifetimeTaskIds : lifetime_tasks[j].pc = "free" => i <= j

(* Allocation::start: a new channel whose sender replaces reset_tx (the    *)
(* old sender is dropped) and a new task with its timer.                   *)
Start ==
    /\ Exclusive
    /\ HasFreeLifetimeTask
    /\ \E lifetime \in Lifetimes :
        lifetime_tasks' =
          [drop_sender(lifetime_tasks, reset_tx) EXCEPT ![FreeLifetimeTaskId] =
             [pc |-> "select", left |-> lifetime, open |-> TRUE, buf |-> 0]]
    /\ reset_tx' = FreeLifetimeTaskId
    /\ ret' = Step("start", TRUE, None)
    /\ UNCHANGED <<permissions, channel_bindings, closed, timer_expired,
                   registered, calls, cb_lock, close_pc>>

(* Allocation::stop                                                        *)
Stop ==
    /\ Exclusive
    /\ lifetime_tasks' = drop_sender(lifetime_tasks, reset_tx)
    /\ reset_tx' = 0
    /\ ret' = Step("stop", TRUE,
                   IF reset_tx = 0 \/ timer_expired THEN "true" ELSE "false")
    /\ UNCHANGED <<permissions, channel_bindings, closed, timer_expired,
                   registered, calls, cb_lock, close_pc>>

(* tx.send(lifetime): the value enters the channel if the receiver is      *)
(* alive and the buffer has room; it fails if the receiver is gone.        *)
send(t, c) ==
    IF lifetime_tasks[reset_tx].pc # "select"
    THEN /\ Return(t, c, None)
         /\ UNCHANGED lifetime_tasks
    ELSE IF lifetime_tasks[reset_tx].buf = 0
    THEN /\ lifetime_tasks' = [lifetime_tasks EXCEPT ![reset_tx].buf = c.lifetime]
         /\ Return(t, c, None)
    ELSE /\ Proceed(t, [c EXCEPT !.pc = "rf_send"])
         /\ UNCHANGED <<lifetime_tasks, cb_lock>>

(* Allocation::refresh                                                     *)
Refresh(t) ==
    /\ close_pc = "idle"
    /\ calls[t].pc = "idle"
    /\ \E lifetime \in Lifetimes :
        LET c == [Idle EXCEPT !.op = "refresh", !.lifetime = lifetime]
        IN  IF reset_tx = 0
            THEN /\ Return(t, c, None)
                 /\ UNCHANGED lifetime_tasks
            ELSE send(t, c)
    /\ UNCHANGED <<permissions, channel_bindings, closed, reset_tx,
                   timer_expired, registered, close_pc>>

(* Allocation::refresh waiting for room in the channel.                    *)
RefreshSend(t) ==
    /\ calls[t].pc = "rf_send"
    /\ \/ lifetime_tasks[reset_tx].pc # "select"
       \/ lifetime_tasks[reset_tx].buf = 0
    /\ send(t, calls[t])
    /\ UNCHANGED <<permissions, channel_bindings, closed, reset_tx,
                   timer_expired, registered, close_pc>>

(* A mutant of the timer branch: the registry is left alone.               *)
LifetimeExpiresKeepsEntry(i) ==
    /\ lifetime_tasks[i].pc = "select"
    /\ lifetime_tasks[i].left = 0
    /\ lifetime_tasks' = [lifetime_tasks EXCEPT ![i].pc = "exit"]
    /\ ret' = Step("lifetime_expired", FALSE, None)
    /\ UNCHANGED <<permissions, channel_bindings, closed, reset_tx,
                   timer_expired, registered, calls, cb_lock, close_pc>>

(* The lifetime task, lines 212-218: the timer fires and the allocation    *)
(* is removed from the manager's map.                                      *)
LifetimeExpires(i) ==
    /\ lifetime_tasks[i].pc = "select"
    /\ lifetime_tasks[i].left = 0
    /\ registered' = FALSE
    /\ lifetime_tasks' = [lifetime_tasks EXCEPT ![i].pc = "exit"]
    /\ ret' = Step("lifetime_expired", FALSE, None)
    /\ UNCHANGED <<permissions, channel_bindings, closed, reset_tx,
                   timer_expired, calls, cb_lock, close_pc>>

(* The lifetime task, lines 219-221: a lifetime is received and the timer  *)
(* is reset to it.                                                         *)
LifetimeReset(i) ==
    /\ lifetime_tasks[i].pc = "select"
    /\ lifetime_tasks[i].buf # 0
    /\ lifetime_tasks' = [lifetime_tasks EXCEPT ![i].left = lifetime_tasks[i].buf,
                                                ![i].buf = 0]
    /\ ret' = Step("lifetime_reset", FALSE, None)
    /\ UNCHANGED <<permissions, channel_bindings, closed, reset_tx,
                   timer_expired, registered, calls, cb_lock, close_pc>>

(* The lifetime task, lines 222-224: the channel is closed and empty.      *)
LifetimeChannelClosed(i) ==
    /\ lifetime_tasks[i].pc = "select"
    /\ ~lifetime_tasks[i].open
    /\ lifetime_tasks[i].buf = 0
    /\ lifetime_tasks' = [lifetime_tasks EXCEPT ![i].pc = "exit"]
    /\ ret' = Step("lifetime_channel_closed", FALSE, None)
    /\ UNCHANGED <<permissions, channel_bindings, closed, reset_tx,
                   timer_expired, registered, calls, cb_lock, close_pc>>

(* The lifetime task, line 229: timer_expired is set and the task ends,    *)
(* dropping its receiver.                                                  *)
LifetimeExit(i) ==
    /\ lifetime_tasks[i].pc = "exit"
    /\ timer_expired' = TRUE
    /\ lifetime_tasks' = [lifetime_tasks EXCEPT ![i] = FreeLifetimeTask]
    /\ ret' = Step("lifetime_exit", FALSE, None)
    /\ UNCHANGED <<permissions, channel_bindings, closed, reset_tx,
                   registered, calls, cb_lock, close_pc>>

(* The &self calls on permissions and channel binds, by caller t.          *)
CallerNext(t) ==
    \/ AddPermission(t)
    \/ AddPermissionOfBind(t)
    \/ AddPermissionInsert(t)
    \/ HasPermission(t)
    \/ RemovePermission(t)
    \/ AddChannelBind(t)
    \/ AddChannelBindPeer(t)
    \/ AddChannelBindGet(t)
    \/ AddChannelBindInsert(t)
    \/ RemoveChannelBind(t)

(* The expiry tasks of the permissions and channel binds, and time.        *)
ExpiryNext ==
    \/ \E f \in Fingerprints : PermissionExpires(f)
    \/ \E n \in Numbers : ChannelBindExpires(n)
    \/ Elapse

(* Concurrent callers of an open allocation.                               *)
AllocationNext ==
    \/ \E t \in Callers : CallerNext(t)
    \/ ExpiryNext

(* close() and the calls of one caller before, between and after.          *)
CloseNext ==
    \/ CallerNext(1)
    \/ ExpiryNext
    \/ Close
    \/ ClosePermissions
    \/ CloseChannelBindings
    \/ Start
    \/ Stop

(* The lifetime of the allocation.                                         *)
LifetimeNext ==
    \/ Start
    \/ Stop
    \/ \E t \in Callers : Refresh(t) \/ RefreshSend(t)
    \/ \E i \in LifetimeTaskIds :
        \/ LifetimeExpires(i)
        \/ LifetimeReset(i)
        \/ LifetimeChannelClosed(i)
        \/ LifetimeExit(i)
    \/ Elapse
    \/ Close
    \/ ClosePermissions
    \/ CloseChannelBindings

(* The calls on the permission table, by caller t.                         *)
PermissionCallerNext(t) ==
    \/ AddPermission(t)
    \/ AddPermissionInsert(t)
    \/ HasPermission(t)
    \/ RemovePermission(t)

(* The insert of add_permission (line 84) replaces the entry of the key    *)
(* when another call installed one since the check (lines 72-77): the      *)
(* replaced Permission is dropped while its expiry task, started at line   *)
(* 80 of the other call, still holds the map and the key.  orphans keeps   *)
(* the time left on the timers of these tasks; time runs on them too.      *)
Orphaned ==
    orphans' =
      [f \in Fingerprints |->
         IF \E t \in Callers :
               /\ calls[t].pc = "ap_insert"
               /\ calls'[t].pc = "idle"
               /\ addr2ipfingerprint(calls[t].paddr) = f
               /\ permissions[f].present
               /\ permissions[f].timer.running
         THEN orphans[f] \cup {permissions[f].timer.left}
         ELSE IF ret'.op = "elapse"
         THEN {Max(x - 1, 0) : x \in orphans[f]}
         ELSE orphans[f]]

(* The timer of a replaced Permission's task wakes it: like every          *)
(* permission task it re-checks closed and removes its key from the map,   *)
(* whichever Permission the key now holds.                                 *)
OrphanExpires(f) ==
    /\ 0 \in orphans[f]
    /\ orphans' = [orphans EXCEPT ![f] = @ \ {0}]
    /\ permissions' = [permissions EXCEPT ![f] =
         IF expiry_rechecks_closed THEN @ ELSE NoPermission]
    /\ ret' = Step("orphan_timer", FALSE, None)
    /\ UNCHANGED <<channel_bindings, closed, reset_tx, timer_expired,
                   registered, lifetime_tasks, calls, cb_lock, close_pc>>

(* The task of a replaced Permission notices that its Permission (the      *)
(* sender of its control channel) is gone and ends, leaving the map alone. *)
OrphanEnds(f) ==
    /\ \E x \in orphans[f] : orphans' = [orphans EXCEPT ![f] = @ \ {x}]
    /\ ret' = Step("orphan_end", FALSE, None)
    /\ UNCHANGED <<permissions, channel_bindings, closed, reset_tx,
                   timer_expired, registered, lifetime_tasks, calls, cb_lock,
                   close_pc>>

(* Time passes when only timers of replaced Permissions are running.       *)
OrphanElapse ==
    /\ ~ENABLED Elapse
    /\ \E f \in Fingerprints : \E x \in orphans[f] : x > 0
    /\ orphans' = [f \in Fingerprints |-> {Max(x - 1, 0) : x \in orphans[f]}]
    /\ ret' = Step("elapse", FALSE, None)
    /\ UNCHANGED <<permissions, channel_bindings, closed, reset_tx,
                   timer_expired, registered, lifetime_tasks, calls, cb_lock,
                   close_pc>>

(* Concurrent callers of the permission table, with the expiry tasks.      *)
PermissionNext ==
    \/ /\ \/ \E t \in Callers : PermissionCallerNext(t)
          \/ \E f \in Fingerprints : PermissionExpires(f)
          \/ Elapse
       /\ Orphaned
    \/ \E f \in Fingerprints : OrphanExpires(f)
    \/ \E f \in Fingerprints : OrphanEnds(f)
    \/ OrphanElapse

(* The history kept along a step of the allocation: a lifetime that       *)
(* refresh puts into the channel of a task whose timer has not run out is  *)
(* promised from then on; time uses it up; start, stop and close, which    *)
(* drop the sender, end it.                                                *)
Promise ==
    promised' =
      IF /\ ret'.op = "refresh"
         /\ reset_tx # 0
         /\ lifetime_tasks'[reset_tx].buf # lifetime_tasks[reset_tx].buf
      THEN IF lifetime_tasks[reset_tx].left > 0
           THEN lifetime_tasks'[reset_tx].buf ELSE 0
      ELSE IF ret'.op = "elapse" THEN Max(promised - 1, 0)
      ELSE IF ret'.op \in {"start", "stop"} \/ closed' # closed THEN 0
      ELSE promised

(* One peer, one channel number, the shortest lifetime and one lifetime    *)
(* task at a time: the scope of the calls when all operations and tasks of *)
(* the allocation run together.                                            *)
ScopePeer == <<"ip1", 1>>
ScopeNumber == "0x4000"

InScope ==
    /\ \A t \in Callers :
        /\ calls[t].peer \in {NoPeer, ScopePeer}
        /\ calls[t].paddr \in {NoPeer, ScopePeer}
        /\ calls[t].number \in {None, ScopeNumber}
        /\ calls[t].lifetime <= 1
    /\ ret.peer \in {NoPeer, ScopePeer}
    /\ \A n \in Numbers : channel_bindings[n].present => n = ScopeNumber
    /\ \A i \in LifetimeTaskIds :
        /\ lifetime_tasks[i].pc # "free" => i = 1
        /\ lifetime_tasks[i].left <= 1
        /\ lifetime_tasks[i].buf <= 1

(* A step of the allocation within the scope.                              *)
Scoped(A) ==
    A /\ InScope' /\ Promise /\ UNCHANGED <<selector_vars, orphans>>

(* Every operation and every task of the allocation.                       *)
ReturnNext ==
    \/ \E t \in Callers : CallerNext(t) \/ Refresh(t) \/ RefreshSend(t)
    \/ ExpiryNext
    \/ Close
    \/ ClosePermissions
    \/ CloseChannelBindings
    \/ Start
    \/ \E i \in LifetimeTaskIds :
        \/ LifetimeExpires(i)
        \/ LifetimeReset(i)
        \/ LifetimeChannelClosed(i)
        \/ LifetimeExit(i)

(* The next step of a call in progress: the rest of add_permission past    *)
(* its check, of add_channel_bind past its check, and of refresh's send.   *)
CallContinues(t) ==
    \/ AddPermissionOfBind(t)
    \/ AddPermissionInsert(t)
    \/ AddChannelBindPeer(t)
    \/ AddChannelBindGet(t)
    \/ AddChannelBindInsert(t)
    \/ RefreshSend(t)

(* The next step of a close() in progress.                                 *)
CloseContinues == ClosePermissions \/ CloseChannelBindings

(* The next step of a spawned lifetime task.                               *)
LifetimeTaskContinues(i) ==
    \/ LifetimeExpires(i)
    \/ LifetimeReset(i)
    \/ LifetimeChannelClosed(i)
    \/ LifetimeExit(i)

(***************************************************************************)
(*                    A L L O C A T I O N   C L A I M S                    *)
(***************************************************************************)

(* The call of some caller has just returned Ok from add_channel_bind.     *)
AddChannelBindReturnedOk ==
    ret.op = "add_channel_bind" /\ ret.done /\ ret.result = "Ok"

(* close() has returned at least once and none is in progress.             *)
CloseReturned == closed /\ close_pc = "idle"

(* C5: the channel bindings are one-to-one in every reachable state: no    *)
(* two distinct channel numbers are bound to the same peer address.        *)
C5_OneToOne ==
    \A n1 \in Numbers, n2 \in Numbers :
        /\ channel_bindings[n1].present
        /\ channel_bindings[n2].present
        /\ channel_bindings[n1].peer = channel_bindings[n2].peer
        => n1 = n2

(* C6: immediately after add_channel_bind(c, lifetime) returns Ok,         *)
(* has_permission(c.peer) is true.                                         *)
C6_PermissionOnBind ==
    AddChannelBindReturnedOk =>
        permissions[addr2ipfingerprint(ret.peer)].present

(* C7 as stated: when add_channel_bind returns Ok, the permission of the   *)
(* peer's IP has at least the remaining lifetime of every bind to that     *)
(* peer, so that it cannot expire while the bind is live.                  *)
C7_PermissionOutlivesBind ==
    AddChannelBindReturnedOk =>
        \A n \in Numbers :
            channel_bindings[n].present /\ channel_bindings[n].peer = ret.paddr
            => /\ permissions[addr2ipfingerprint(ret.paddr)].present
               /\ permissions[addr2ipfingerprint(ret.paddr)].timer.left
                    >= channel_bindings[n].timer.left

(* C7 amended: when add_channel_bind returns Ok, a permission for the IP   *)
(* of the peer of the bind it installed or refreshed is present, and its   *)
(* remaining lifetime is at most PERMISSION_TIMEOUT whatever the bind's    *)
(* lifetime.                                                               *)
C7_PermissionTimeout ==
    AddChannelBindReturnedOk =>
        /\ permissions[addr2ipfingerprint(ret.paddr)].present
        /\ permissions[addr2ipfingerprint(ret.paddr)].timer.left
             <= PERMISSION_TIMEOUT

(* add_channel_bind has returned Ok leaving a bind that outlives the       *)
(* permission it created.                                                  *)
C7_Witness ==
    /\ AddChannelBindReturnedOk
    /\ permissions[addr2ipfingerprint(ret.paddr)].timer = Timer(PERMISSION_TIMEOUT)
    /\ \E n \in Numbers :
        /\ channel_bindings[n].present
        /\ channel_bindings[n].peer = ret.paddr
        /\ channel_bindings[n].timer = Timer(MaxLifetime)

(* C8: close() is idempotent: a close() called on a closed allocation      *)
(* returns Ok at once and leaves the closed flag, the sender, the timers   *)
(* and the maps as they were.                                              *)
C8_CloseIdempotent ==
    [][CloseReturned /\ ret'.op = "close" =>
         /\ ret' = Step("close", TRUE, "Ok")
         /\ UNCHANGED <<permissions, channel_bindings, closed, reset_tx,
                        timer_expired, registered, lifetime_tasks, calls,
                        cb_lock, close_pc>>]_turn_vars

(* A second close() has returned Ok on an allocation that holds a sender   *)
(* and a running timer, both created after the first close().              *)
C8_Witness ==
    /\ CloseReturned
    /\ ret = Step("close", TRUE, "Ok")
    /\ reset_tx # 0
    /\ \E f \in Fingerprints : permissions[f].timer.running

C10_NoEffectAfterClose ==
    [][CloseReturned /\ ret'.op \in {"add_permission", "remove_permission",
                                     "add_channel_bind", "remove_channel_bind"}
         => UNCHANGED <<permissions, channel_bindings>>]_turn_vars

(* No lifetime task is alive.                                              *)
NoLifetimeTask == \A i \in LifetimeTaskIds : lifetime_tasks[i].pc = "free"

(* C11: after close() on a started allocation the lifetime task removes    *)
(* the allocation from the manager's registry: once close() has returned   *)
(* and the lifetime task has ended (it has set timer_expired), the         *)
(* registry no longer holds the allocation.                                *)
C11_RemovedAfterClose ==
    CloseReturned /\ timer_expired /\ NoLifetimeTask => ~registered

(* Number n is bound to peer a.                                            *)
Bound(n, a) == channel_bindings[n].present /\ channel_bindings[n].peer = a

(* add_channel_bind has just failed.                                       *)
AddChannelBindFailed ==
    /\ ret.op = "add_channel_bind"
    /\ ret.done
    /\ ret.result = "ERR_SAME_CHANNEL_DIFFERENT_PEER"

CurrentLifetimeExpires ==
    /\ reset_tx # 0
    /\ ret'.op = "lifetime_expired"
    /\ lifetime_tasks[reset_tx].pc = "select"
    /\ lifetime_tasks'[reset_tx].pc = "exit"

(* C13: after refresh(lifetime) at time t on a started allocation whose    *)
(* timer has not run out, the lifetime task does not take its timer branch *)
(* (does not remove the allocation from the registry) before t + lifetime, *)
(* whatever the scheduling.                                                *)
C13_NoExpiryBeforeRefreshedLifetime ==
    [][CurrentLifetimeExpires => promised = 0]_vars

(* A step that is no call of refresh, start, stop or close.                *)
NoLifetimeCall == ret'.op \notin {"refresh", "start", "stop", "close"}

(* The allocation is gone from the registry and timer_expired is set.      *)
Expired == ~registered /\ timer_expired

C15_StopReturnsExpired ==
    [][ret'.op = "stop" /\ ret'.result = "true"
         => reset_tx = 0 \/ ~registered]_vars

(* C21: refresh(lifetime) is a non-blocking send: whatever the state of    *)
(* the allocation and of its lifetime task, and however several refresh    *)
(* calls interleave, a step of refresh returns; the call never waits for   *)
(* the lifetime task.                                                      *)
C21_RefreshNeverWaits ==
    [][ret'.op = "refresh" => ret'.done]_vars

(* The lifetime tasks that have been spawned and have not ended.           *)
LiveLifetimeTasks == {i \in LifetimeTaskIds : lifetime_tasks[i].pc # "free"}

(* C22: for any sequence of start, refresh, stop and close calls at most   *)
(* one lifetime task is live at any time, and it is the one reset_tx       *)
(* feeds: only the current task can remove the registry entry or set       *)
(* timer_expired.                                                          *)
C22_OneLifetimeTask ==
    /\ Cardinality(LiveLifetimeTasks) <= 1
    /\ (reset_tx # 0 => LiveLifetimeTasks \subseteq {reset_tx})

(* C23: when add_permission calls for the same peer IP interleave, the     *)
(* entry of that IP is removed from the permissions map only by            *)
(* remove_permission or by its own expiry: no other task removes it while  *)
(* its own timer, restarted by every add or refresh, still has time left.  *)
C23_RemovedByOwnExpiry ==
    [][\A f \in Fingerprints :
         permissions[f].present /\ ~permissions'[f].present
         => \/ ret'.op = "remove_permission"
            \/ permissions[f].timer = Timer(0)]_vars

SelectorSpecInit == SelectorInit /\ AllocationInit

SelectorSpec ==
    SelectorSpecInit
    /\ [][SelectorNext /\ UNCHANGED <<turn_vars, history_vars, peer_vars>>]_vars

(* The controlled selector alone, with the history of its nominations.     *)
NominationSpecInit == SelectorInit /\ AllocationInit /\ ~is_controlling

NominationSpec ==
    NominationSpecInit
    /\ [][ControlledNext /\ Remember
             /\ UNCHANGED <<turn_vars, promised, peer_vars>>]_vars

(* The controlling agent and the controlled peer on a reliable network:    *)
(* every tick that can send and every delivery eventually happens.         *)
HappyPathSpecInit == HappyPathInit /\ AllocationInit

HappyPathSpec ==
    /\ HappyPathSpecInit
    /\ [][HappyPathNext]_vars
    /\ WF_vars(HappyPathTick)
    /\ WF_vars(AgentContactCandidates /\ out' # {})
    /\ WF_vars(PeerContactCandidates(TRUE))
    /\ \A m \in Messages :
        /\ WF_vars(AgentReceives(m))
        /\ WF_vars(PeerReceives(m))

AllocationSpecInit == AllocationInit /\ SelectorInit /\ is_controlling /\ ~lite

AllocationSpec ==
    AllocationSpecInit /\ [][AllocationNext /\ Promise /\ UNCHANGED <<selector_vars, orphans>>]_vars

CloseSpec ==
    AllocationSpecInit /\ [][CloseNext /\ Promise /\ UNCHANGED <<selector_vars, orphans>>]_vars

LifetimeSpec ==
    AllocationSpecInit /\ [][LifetimeNext /\ Promise /\ UNCHANGED <<selector_vars, orphans>>]_vars

PermissionSpec ==
    AllocationSpecInit
    /\ [][PermissionNext /\ Promise /\ UNCHANGED selector_vars]_vars

(* All operations and tasks of the allocation together, with their        *)
(* scheduling: a call in progress and a spawned task are polled when they  *)
(* can take a step; the mutex and the channel serve their waiters in       *)
(* order, so a step that waits for the guard or for room in the channel is *)
(* not overtaken for ever.                                                 *)
ReturnSpec ==
    /\ AllocationSpecInit
    /\ [][Scoped(ReturnNext)]_vars
    /\ \A t \in Callers : SF_vars(Scoped(CallContinues(t)))
    /\ SF_vars(Scoped(CloseContinues))
    /\ \A i \in LifetimeTaskIds : WF_vars(Scoped(LifetimeTaskContinues(i)))

(* The lifetime with its scheduling: time passes and a task that can take  *)
(* a step is eventually polled.                                            *)
LifetimeFairSpec ==
    /\ LifetimeSpec
    /\ WF_vars(Elapse /\ Promise /\ UNCHANGED <<selector_vars, orphans>>)
    /\ \A i \in LifetimeTaskIds :
        /\ WF_vars(LifetimeExpires(i) /\ Promise /\ UNCHANGED <<selector_vars, orphans>>)
        /\ WF_vars(LifetimeReset(i) /\ Promise /\ UNCHANGED <<selector_vars, orphans>>)
        /\ WF_vars(LifetimeChannelClosed(i) /\ Promise /\ UNCHANGED <<selector_vars, orphans>>)
        /\ WF_vars(LifetimeExit(i) /\ Promise /\ UNCHANGED <<selector_vars, orphans>>)

====
